---- MODULE Spec2Model ----
(***************************************************************************)
(* Model of data-visualization/main.py: the sweep harness that drives the  *)
(* forest-fire simulator over wind strengths, tails its NDJSON stream,     *)
(* reduces every run to metrics and averages them per wind strength.       *)
(*                                                                         *)
(* Conventions                                                             *)
(*  - Python list indices are 0-based; a TLA+ sequence element i+1 is the  *)
(*    Python element i.  last_processed and the idx fields of `handed'     *)
(*    are Python indices.                                                  *)
(*  - Python floats are IEEE-754 doubles: every sum and quotient is        *)
(*    rounded to 53 significant bits (see the float operators).            *)
(*  - Python None for initial_burnable_count is the sentinel None (-1).    *)
(*  - psutil / subprocess / the simulator are the environment; their       *)
(*    behaviour is modelled from their documented semantics at the lines   *)
(*    of main.py that call them.                                           *)
(***************************************************************************)
EXTENDS Integers, Sequences, FiniteSets, TLC

VARIABLES
    pc,                     \* position of the harness in main.py
    error,                  \* the uncaught exception that ended the harness, or NoError
    wind_strength,          \* loop variable of line 78
    run,                    \* loop variable of line 83
    total_burned,           \* line 80
    total_final_burned,     \* line 81
    wind_strengths,         \* line 34
    max_burned_percents,    \* line 35
    final_burned_percents,  \* line 36
    last_processed,         \* line 114
    frame_counter,          \* line 115
    max_percent_burned,     \* line 116
    peak_fire_front,        \* line 117
    done,                   \* line 118
    initial_burnable_count, \* line 120
    percent_burned,         \* line 121
    sleeping,               \* the last poll found nothing new and hit time.sleep (line 129)
    sim_file,               \* SIM_FILE on disk: [exists, lines, partial, split_char]
    root,                   \* the process started by Popen for the current run: "none" |
                            \* "alive" | "killed" (SIGKILL sent, still running) |
                            \* "exited" (a zombie) | "gone" (reaped)
    kids,                   \* descendants of root: kid id -> "none" | "alive" |
                            \* "killed" (SIGKILL sent, still running) | "gone"
    stale,                  \* number of live processes left over from earlier runs
    children,               \* kill_proc_tree: the list enumerated at line 63
    alive,                  \* kill_proc_tree: the survivors returned by wait_procs (line 66)
    ti,                     \* kill_proc_tree: position in the for loops of lines 64 / 67
    signalled,              \* history: pids sent terminate()/kill() by the current teardown (0 = root)
    handed,                 \* history: the lines the for loop of line 132 ran on, this run
    spawned,                \* history: number of Popen calls so far
    run_log,                \* history: the metrics folded for the current wind strength
    control,                \* SIM_CONTROL on disk: [state, wind]
    control_read            \* history: the states of SIM_CONTROL that simulator processes read

sweepVars == <<wind_strength, run, total_burned, total_final_burned,
               wind_strengths, max_burned_percents, final_burned_percents>>
runVars   == <<last_processed, frame_counter, max_percent_burned, peak_fire_front,
               done, initial_burnable_count, percent_burned>>
procVars  == <<root, kids, stale>>
killVars  == <<children, alive, ti, signalled>>
ctlVars   == <<control, control_read>>
vars == <<pc, error, sweepVars, runVars, sleeping, sim_file, procVars, killVars,
          handed, spawned, run_log, ctlVars>>

(***************************************************************************)
(* Program constants                                                       *)
(***************************************************************************)
WIND_STRENGTH_STEP == 1

burning_symbols  == {"*", "**", "***", "+", "!", "&", "@"}
burnable_symbols == {"G", "T", "s", "y"}
burned_symbols   == {"A", "-"}

None == -1

NoError           == "none"
NoBurnableError   == "RuntimeError: No burnable cells in grid!"
TypeErrorRaised   == "TypeError"
UnicodeErrorRaised == "UnicodeDecodeError"
ZeroDivisionRaised == "ZeroDivisionError"

(***************************************************************************)
(* Bounds of the model.  MAX_WIND_STRENGTH is 50 and REPEATS is 5 in the   *)
(* source; each specification below runs the harness with smaller values:  *)
(* its scope gives the largest wind strength (wind_max) and the number of  *)
(* repeats, the most data lines of a stream and the most helper processes. *)
(* MaxCells is the number of cells of the largest grid of the scopes.      *)
(***************************************************************************)
RunRepeats   == 1
RunLines     == 3
SweepRepeats == 2
ProcRepeats  == 2
ProcLines    == 1
ProcKids     == 1
ShapeRepeats == 1
ShapeLines   == 2
TailRepeats  == 1
TailLines    == 2
MeanRepeats  == 3
MaxCells     == 6

(***************************************************************************)
(* Python floats (IEEE-754 binary64, round to nearest, ties to even).      *)
(* A non-negative double x is the number N = x * 2^75, an integer for      *)
(* every double of [2^-23, 2^30), held as Limbs digits of base 2^15,       *)
(* lowest digit first.  An operation computes its exact result and rounds  *)
(* it to 53 significant bits, as the hardware does.  The divisors are the  *)
(* integers of lines 165, 184 and 185 and must be below 2^16.              *)
(***************************************************************************)
Base         == 32768
LimbBits     == 15
Limbs        == 7
FracLimbs    == 5
MantissaBits == 53

Zero == [i \in 1..Limbs |-> 0]

\* float(k) for an integer 0 <= k < 2^30
Whole(k) ==
    [i \in 1..Limbs |-> IF i = FracLimbs + 1 THEN k % Base
                        ELSE IF i = FracLimbs + 2 THEN k \div Base
                        ELSE 0]

RECURSIVE CarryInto(_, _, _)
CarryInto(x, y, i) ==
    IF i = 1 THEN 0 ELSE (x[i - 1] + y[i - 1] + CarryInto(x, y, i - 1)) \div Base

\* the exact sum
BigAdd(x, y) == [i \in 1..Limbs |-> (x[i] + y[i] + CarryInto(x, y, i)) % Base]

RECURSIVE RemAbove(_, _, _)
RemAbove(x, d, i) ==
    IF i = Limbs THEN 0 ELSE (RemAbove(x, d, i + 1) * Base + x[i + 1]) % d

\* the exact quotient x / d is BigQuot(x, d) + BigRem(x, d) / d units
BigQuot(x, d) == [i \in 1..Limbs |-> (RemAbove(x, d, i) * Base + x[i]) \div d]
BigRem(x, d)  == (RemAbove(x, d, 1) * Base + x[1]) % d

\* the number of significant bits of N
BitLen(x) ==
    LET used == {i \in 1..Limbs : x[i] # 0} IN
    IF used = {} THEN 0
    ELSE LET top == CHOOSE i \in used : \A j \in used : j <= i
         IN  (top - 1) * LimbBits + Cardinality({j \in 0..(LimbBits - 1) : 2^j <= x[top]})

BitAt(x, j) == (x[(j \div LimbBits) + 1] \div 2^(j % LimbBits)) % 2

\* some bit of N below bit j is set
AnyBelow(x, j) ==
    \/ \E i \in 1..(j \div LimbBits) : x[i] # 0
    \/ x[(j \div LimbBits) + 1] % 2^(j % LimbBits) # 0

\* N with the bits below bit j cleared
ClearBelow(x, j) ==
    [i \in 1..Limbs |-> IF i - 1 < j \div LimbBits THEN 0
                        ELSE IF i - 1 = j \div LimbBits
                        THEN x[i] - (x[i] % 2^(j % LimbBits))
                        ELSE x[i]]

Pow2(j) == [i \in 1..Limbs |-> IF i - 1 = j \div LimbBits THEN 2^(j % LimbBits) ELSE 0]

\* the double nearest to N + r / d units (0 <= r < d), ties to even
RoundNearestEven(x, r, d) ==
    LET drop == BitLen(x) - MantissaBits       \* bits of N that do not fit
    IN  IF drop <= 0
        THEN IF 2 * r > d \/ (2 * r = d /\ BitAt(x, 0) = 1)
             THEN BigAdd(x, Pow2(0)) ELSE x
        ELSE LET half  == BitAt(x, drop - 1) = 1
                 below == AnyBelow(x, drop - 1) \/ r # 0
                 odd   == BitAt(x, drop) = 1
             IN  IF half /\ (below \/ odd)
                 THEN BigAdd(ClearBelow(x, drop), Pow2(drop))
                 ELSE ClearBelow(x, drop)

\* x + y of two floats (the operands and the exact sum are evaluated once)
FAdd(x, y) ==
    CHOOSE z \in {RoundNearestEven(s, 0, 1) :
                    s \in {BigAdd(a, b) : a \in {x}, b \in {y}}} : TRUE

\* x / k of a float and an integer 0 < k < 2^16
FDiv(x, k) ==
    CHOOSE z \in {RoundNearestEven(q[1], q[2], k) :
                    q \in {<<BigQuot(a, k), BigRem(a, k)>> : a \in {x}}} : TRUE

\* 100.0 * b / n for the cell counts of the grids of the scopes, computed once
Percentages == [b \in 0..MaxCells, n \in 1..MaxCells |-> FDiv(Whole(100 * b), n)]

\* n / d of an integer 0 <= n < 2^30 (as float) and an integer 0 < d < 2^16
Frac(n, d) ==
    IF n % 100 = 0 /\ n \div 100 <= MaxCells /\ d \in 1..MaxCells
    THEN Percentages[n \div 100, d]
    ELSE FDiv(Whole(n), d)

\* x <= y
FLeq(x, y) ==
    \/ x = y
    \/ \E i \in 1..Limbs : x[i] < y[i] /\ \A j \in (i + 1)..Limbs : x[j] = y[j]

FMax_Latest(x, y) == y
FMax(x, y) == CHOOSE z \in {IF FLeq(b, a) THEN a ELSE b : a \in {x}, b \in {y}} : TRUE

Max(a, b) == IF a >= b THEN a ELSE b

(***************************************************************************)
(* Stream lines.  A line is what json.loads makes of it:                   *)
(*   kind "malformed": json.loads raises                                   *)
(*   kind "scalar"   : a value that is neither dict nor list               *)
(*   kind "dict"     : a dict without the key "cells"                      *)
(*   kind "cells"    : a dict with the key "cells"; grid = loaded["cells"] *)
(*   kind "list"     : a list; grid = loaded                               *)
(* iterable: `for row in grid for cell in row' runs (FALSE: it raises      *)
(* TypeError, e.g. {"cells": 5} or [1, 2]); cells: the rows of the grid.   *)
(***************************************************************************)
Line(k, it, g) == [kind |-> k, iterable |-> it, cells |-> g]
Malformed   == Line("malformed", FALSE, <<>>)
Scalar      == Line("scalar", FALSE, <<>>)
DictNoCells == Line("dict", FALSE, <<>>)
ListNotRows == Line("list", FALSE, <<>>)
CellsNotGrid == Line("cells", FALSE, <<>>)
Bare(g)     == Line("list", TRUE, g)
Wrapped(g)  == Line("cells", TRUE, g)
Header      == DictNoCells

(***************************************************************************)
(* Cell counting (lines 146-152, 164, 167-169)                             *)
(***************************************************************************)
CountRow(row, S) == Cardinality({j \in DOMAIN row : row[j] \in S})

RECURSIVE CountFrom(_, _, _)
CountFrom(grid, S, i) ==
    IF i > Len(grid) THEN 0 ELSE CountRow(grid[i], S) + CountFrom(grid, S, i + 1)

CountCells(grid, S) == CountFrom(grid, S, 1)

DomainCount(grid)  == CountCells(grid, burnable_symbols \cup burned_symbols \cup burning_symbols)
BurnedCount(grid)  == CountCells(grid, burned_symbols)
BurningCount(grid) == CountCells(grid, burning_symbols)

(***************************************************************************)
(* The body of the for loop of lines 132-173, on the run state             *)
(*   st = [frame_counter, max_percent_burned, peak_fire_front, done,       *)
(*         initial_burnable_count, percent_burned, error, seen]            *)
(* seen counts the lines the body ran on.                                  *)
(***************************************************************************)
Decodes(line) == line.kind # "malformed"

\* lines 135-136: `except Exception: continue'
OnDecodeError(st) == st

HasGrid(line) == line.kind \in {"cells", "list"}

IsFirstGrid_Always(st) == TRUE

\* line 139
IsFirstGrid(st) == st.initial_burnable_count = None

NoBurnable_Unchecked(count) == FALSE

\* line 153
NoBurnable(count) == count = 0

\* line 154: the exception raised in the run `repeat' of wind strength `wind'
NoBurnableMessage(wind, repeat) == NoBurnableError

PercentBurned_Fraction(burned, initial) == Frac(burned, initial)

\* line 165
PercentBurned(burned, initial) == Frac(100 * burned, initial)

IsTerminal(burning_now) == burning_now = 0

Reduce(st, line) ==
    LET counted == [st EXCEPT !.frame_counter = @ + 1] IN
    IF ~line.iterable
    THEN [counted EXCEPT !.error = TypeErrorRaised]
    ELSE IF st.initial_burnable_count = 0          \* line 165 would divide by zero;
    THEN [counted EXCEPT !.error = ZeroDivisionRaised]  \* line 153 keeps 0 away
    ELSE LET burned      == BurnedCount(line.cells)
             percent     == PercentBurned(burned, st.initial_burnable_count)
             burning_now == BurningCount(line.cells)
         IN  [counted EXCEPT !.percent_burned     = percent,
                             !.max_percent_burned = FMax(@, percent),
                             !.peak_fire_front    = Max(@, burning_now),
                             !.done               = IF IsTerminal(burning_now) THEN TRUE ELSE @]

LoopBody(st0, line) ==
    LET st == [st0 EXCEPT !.seen = @ + 1] IN
    IF ~Decodes(line) THEN OnDecodeError(st)
    ELSE IF ~HasGrid(line) THEN st
    ELSE IF IsFirstGrid(st)
    THEN IF ~line.iterable
         THEN [st EXCEPT !.error = TypeErrorRaised]
         ELSE LET count == DomainCount(line.cells) IN
              IF NoBurnable(count)
              THEN [st EXCEPT !.initial_burnable_count = count,
                              !.error = NoBurnableError]
              ELSE Reduce([st EXCEPT !.initial_burnable_count = count], line)
    ELSE Reduce(st, line)

BreaksLoop_Never(st) == FALSE

\* line 173: `break' after done = True
BreaksLoop(st) == st.done

RECURSIVE ForLines(_, _, _)
ForLines(st0, new_lines, i) ==
    CHOOSE end \in {IF i > Len(new_lines) \/ st.error # NoError \/ BreaksLoop(st)
                    THEN st
                    ELSE ForLines(LoopBody(st, new_lines[i]), new_lines, i + 1) :
                    st \in {st0}} : TRUE

(***************************************************************************)
(* Reading the stream (lines 124-127).  The file is opened as text and     *)
(* readlines() decodes all of it: when the bytes on disk end inside a      *)
(* multi-byte character it raises UnicodeDecodeError.  Otherwise it        *)
(* returns every line of the file; a last line the simulator has only      *)
(* partly written is returned as it is on disk, a strict prefix of the     *)
(* JSON text, which json.loads rejects.                                    *)
(***************************************************************************)
\* a cell symbol that takes more than one byte in the stream's encoding
MultiByteSymbols == {"U+00B7"}

HasMultiByte(line) == CountCells(line.cells, MultiByteSymbols) > 0

\* line 125 raises
ReadRaises(f) == f.partial /\ f.split_char

ReadLines(f) ==
    [i \in 1..Len(f.lines) |->
        IF i = Len(f.lines) /\ f.partial THEN Malformed ELSE f.lines[i]]

NewLines_FromLast(lines, processed) == SubSeq(lines, processed, Len(lines))

\* line 127: lines[last_processed:]
NewLines(lines, processed) == SubSeq(lines, processed + 1, Len(lines))

AdvanceProcessed(processed, new_lines) == processed + Len(new_lines)

Accumulate_Overwrite(total, value) == value

\* lines 179-180: `total += value'
Accumulate(total, value) == FAdd(total, value)

\* lines 184-185: `total / REPEATS'
Average(total, repeats) == FDiv(total, repeats)

FIRST_DATA_LINE == 1

(***************************************************************************)
(* Scopes: the harness constants and the simulator behaviours one          *)
(* specification explores.                                                 *)
(*   wind_max, repeats : MAX_WIND_STRENGTH and REPEATS of this scope       *)
(*   lines   : most data lines the simulator writes in one run             *)
(*   vals    : the lines the simulator may write                           *)
(*   kidmax  : most descendants the simulator forks in one run             *)
(*   stubborn: the simulator may outlive the 3 s that follow SIGTERM       *)
(***************************************************************************)
RunVals ==
    { Malformed, Scalar,
      Bare(<< <<"*", ".">> >>),        \* burning 1, other 1
      Wrapped(<< <<"A", "*">> >>),     \* burned 1, burning 1
      Bare(<< <<"A", "T">> >>),        \* burned 1, burnable 1: terminal
      Bare(<< <<"A", "A">> >>),        \* burned 2: terminal
      Bare(<< <<".", ".">> >>) }       \* no cell of the fire domain

SweepVals ==
    { Bare(<< <<"A", "A", "T", "T", "T">> >>),   \* terminal, 40 %
      Bare(<< <<"A", "A", "A", "T", "T">> >>),   \* terminal, 60 %
      Bare(<< <<"A", "A", "A", "A", "T">> >>),   \* terminal, 80 %
      Bare(<< <<"A", "A", "A", "A", "A">> >>),   \* terminal, 100 %
      Bare(<< <<"A", "A", "A", "A", "*">> >>),   \* burning, 80 % burned
      Bare(<< <<".", ".", ".", ".", ".">> >>) }  \* no cell of the fire domain

ProcVals == { Bare(<< <<"A", "T">> >>) }

ShapeVals ==
    { Scalar, DictNoCells,
      ListNotRows,                     \* e.g. [1, 2]
      CellsNotGrid,                    \* e.g. {"cells": 5}
      Bare(<< <<"*", "T">> >>),        \* burning 1, burnable 1
      Bare(<< <<"A", "T">> >>) }       \* burned 1, burnable 1: terminal

RunScope   == [wind_max |-> 0, repeats |-> RunRepeats, lines |-> RunLines,
               vals |-> RunVals, kidmax |-> 0, stubborn |-> FALSE]
SweepScope == [wind_max |-> 1, repeats |-> SweepRepeats, lines |-> 2,
               vals |-> SweepVals, kidmax |-> 0, stubborn |-> FALSE]
ProcScope  == [wind_max |-> 0, repeats |-> ProcRepeats, lines |-> ProcLines,
               vals |-> ProcVals, kidmax |-> ProcKids, stubborn |-> TRUE]

TailVals ==
    { Bare(<< <<"*", "T">> >>),        \* burning 1, burnable 1
      Bare(<< <<"A", "T">> >>),        \* burned 1, burnable 1: terminal
      Bare(<< <<"A", "U+00B7">> >>) }  \* burned 1, a two-byte symbol: terminal

\* terminal frames of a six-cell grid; their percentages are not exact in binary
MeanVals ==
    { Bare(<< <<"A", "T", "T", "T", "T", "T">> >>),   \* 100 / 6
      Bare(<< <<"A", "A", "A", "T", "T", "T">> >>),   \* 50
      Bare(<< <<"A", "A", "A", "A", "A", "T">> >>) }  \* 500 / 6

MeanScope  == [wind_max |-> 1, repeats |-> MeanRepeats, lines |-> 1,
               vals |-> MeanVals, kidmax |-> 0, stubborn |-> FALSE]
TailScope  == [wind_max |-> 0, repeats |-> TailRepeats, lines |-> TailLines,
               vals |-> TailVals, kidmax |-> 0, stubborn |-> FALSE]
ShapeScope == [wind_max |-> 0, repeats |-> ShapeRepeats, lines |-> ShapeLines,
               vals |-> ShapeVals, kidmax |-> 0, stubborn |-> FALSE]

KidIds == 1..ProcKids

(***************************************************************************)
(* Initial state: the module-level statements before the sweep loop        *)
(***************************************************************************)
NoFile == [exists |-> FALSE, lines |-> <<>>, partial |-> FALSE, split_char |-> FALSE]

\* SIM_CONTROL: "absent" before the first write, "empty" between open(path, "w")
\* and the flush of the record when the file is closed, "complete" afterwards;
\* wind is the windStrength of the record
NoControl == [state |-> "absent", wind |-> None]

\* line 56: open(path, "w") truncates the file
Truncated(c) == [state |-> "empty", wind |-> None]

\* lines 48-57: the whole record reaches the file when the with block closes it
Written(wind) == [state |-> "complete", wind |-> wind]

Init ==
    /\ pc = "wind"
    /\ error = NoError
    /\ wind_strength = 0
    /\ run = 0
    /\ total_burned = Zero
    /\ total_final_burned = Zero
    /\ wind_strengths = <<>>
    /\ max_burned_percents = <<>>
    /\ final_burned_percents = <<>>
    /\ last_processed = FIRST_DATA_LINE
    /\ frame_counter = 0
    /\ max_percent_burned = Zero
    /\ peak_fire_front = 0
    /\ done = FALSE
    /\ initial_burnable_count = None
    /\ percent_burned = Zero
    /\ sleeping = FALSE
    /\ sim_file = NoFile
    /\ root = "none"
    /\ kids = [k \in KidIds |-> "none"]
    /\ stale = 0
    /\ children = <<>>
    /\ alive = <<>>
    /\ ti = 1
    /\ signalled = {}
    /\ handed = <<>>
    /\ spawned = 0
    /\ run_log = <<>>
    /\ control = NoControl
    /\ control_read = {}

(***************************************************************************)
(* The sweep loops (lines 78-109, 179-187)                                 *)
(***************************************************************************)
InRange_Exclusive(wind, wind_max) == wind < wind_max

\* line 78: range(0, MAX_WIND_STRENGTH + 1, WIND_STRENGTH_STEP) has the value `wind'
InRange(wind, wind_max) == wind <= wind_max

\* line 78 with a next value, lines 79-81
StartWind(S) ==
    /\ pc = "wind"
    /\ InRange(wind_strength, S.wind_max)
    /\ total_burned' = Zero
    /\ total_final_burned' = Zero
    /\ run' = 0
    /\ run_log' = <<>>
    /\ pc' = "run"
    /\ UNCHANGED <<ctlVars, error, wind_strength, wind_strengths, max_burned_percents,
                   final_burned_percents, runVars, sleeping, sim_file, procVars,
                   killVars, handed, spawned>>

\* line 78 exhausted, line 187
Finish(S) ==
    /\ pc = "wind"
    /\ ~InRange(wind_strength, S.wind_max)
    /\ pc' = "finished"
    /\ UNCHANGED <<ctlVars, error, sweepVars, runVars, sleeping, sim_file, procVars, killVars,
                   handed, spawned, run_log>>

\* the root executes: it was started and has neither exited nor been reaped
RootRunning == root \in {"alive", "killed"}

KidRunning(k) == kids[k] \in {"alive", "killed"}

LiveProcs == (IF RootRunning THEN 1 ELSE 0) + Cardinality({k \in KidIds : KidRunning(k)})

\* line 83 with a next value, lines 84-86: remove the stale stream; lines 88-94
\* up to line 56: open the control file for writing
StartRun(S) ==
    /\ pc = "run"
    /\ run < S.repeats
    /\ sim_file' = NoFile
    /\ control' = Truncated(control)
    /\ sleeping' = FALSE
    /\ pc' = "write_control"
    /\ UNCHANGED <<error, sweepVars, runVars, procVars, killVars, handed, spawned,
                   run_log, control_read>>

\* line 57 and the end of the with block
WriteControl ==
    /\ pc = "write_control"
    /\ control' = Written(wind_strength)
    /\ pc' = "spawn"
    /\ UNCHANGED <<error, sweepVars, runVars, sleeping, sim_file, procVars, killVars,
                   handed, spawned, run_log, control_read>>

\* lines 96-109: Popen; the handle of the previous run is dropped
Spawn ==
    /\ pc = "spawn"
    /\ stale' = stale + LiveProcs
    /\ root' = "alive"
    /\ kids' = [k \in KidIds |-> "none"]
    /\ spawned' = spawned + 1
    /\ pc' = "wait_file"
    /\ UNCHANGED <<error, sweepVars, runVars, sleeping, sim_file, killVars, handed,
                   run_log, ctlVars>>

ResetTo_Kept(previous, initial) == previous

\* lines 114-121: `name = initial' at the start of a run, whatever the previous
\* run left in `name'
ResetTo(previous, initial) == initial

\* lines 111-121: the stream exists; initialise the run
WaitFile ==
    /\ pc = "wait_file"
    /\ sim_file.exists
    /\ last_processed' = ResetTo(last_processed, FIRST_DATA_LINE)
    /\ frame_counter' = ResetTo(frame_counter, 0)
    /\ max_percent_burned' = ResetTo(max_percent_burned, Zero)
    /\ peak_fire_front' = ResetTo(peak_fire_front, 0)
    /\ done' = ResetTo(done, FALSE)
    /\ initial_burnable_count' = ResetTo(initial_burnable_count, None)
    /\ percent_burned' = ResetTo(percent_burned, Zero)
    /\ handed' = <<>>
    /\ pc' = "poll"
    /\ UNCHANGED <<ctlVars, error, sweepVars, sleeping, sim_file, procVars, killVars,
                   spawned, run_log>>

(***************************************************************************)
(* One iteration of `while not done' (lines 123-175)                       *)
(***************************************************************************)
RunState ==
    [frame_counter |-> frame_counter, max_percent_burned |-> max_percent_burned,
     peak_fire_front |-> peak_fire_front, done |-> done,
     initial_burnable_count |-> initial_burnable_count,
     percent_burned |-> percent_burned, error |-> NoError, seen |-> 0]

Poll ==
    /\ pc = "poll"
    /\ IF ReadRaises(sim_file)
       THEN /\ error' = UnicodeErrorRaised          \* uncaught: the harness exits
            /\ pc' = "aborted"
            /\ UNCHANGED <<runVars, handed, sleeping>>
       ELSE
       LET lines     == ReadLines(sim_file)
           new_lines == NewLines(lines, last_processed)
           first     == Len(lines) - Len(new_lines)   \* index of new_lines[0] in lines
       IN  \E st \in {ForLines(RunState, new_lines, 1)} :
           /\ frame_counter' = st.frame_counter
           /\ max_percent_burned' = st.max_percent_burned
           /\ peak_fire_front' = st.peak_fire_front
           /\ done' = st.done
           /\ initial_burnable_count' = st.initial_burnable_count
           /\ percent_burned' = st.percent_burned
           /\ handed' = handed \o [i \in 1..st.seen |->
                                     [idx |-> first + i - 1, line |-> new_lines[i]]]
           /\ sleeping' = (new_lines = <<>>)
           /\ IF st.error # NoError
              THEN /\ error' = IF st.error = NoBurnableError
                               THEN NoBurnableMessage(wind_strength, run)
                               ELSE st.error        \* uncaught: the harness exits
                   /\ pc' = "aborted"
                   /\ UNCHANGED last_processed
              ELSE /\ last_processed' = AdvanceProcessed(last_processed, new_lines)
                   /\ pc' = IF st.done THEN "kill_tree" ELSE "poll"
                   /\ UNCHANGED error
    /\ UNCHANGED <<ctlVars, sweepVars, sim_file, procVars, killVars, spawned, run_log>>

(***************************************************************************)
(* kill_proc_tree (lines 60-75), one action per psutil call                *)
(***************************************************************************)
RECURSIVE Ascending(_)
Ascending(S) ==
    IF S = {} THEN <<>>
    ELSE LET m == CHOOSE x \in S : \A y \in S : x <= y
         IN  <<m>> \o Ascending(S \ {m})

\* the helpers of a root that has exited are re-parented: children() of an exited
\* root is empty
Descendants == IF RootRunning THEN {k \in KidIds : KidRunning(k)} ELSE {}

NoSuchProcess == "psutil.NoSuchProcess"

ExceptExit_Raise(e) == pc' = "aborted" /\ error' = e

\* lines 74-75: `except Exception as e: print(...)'; kill_proc_tree returns and the
\* harness goes on at line 179
ExceptExit(e) == pc' = "fold" /\ UNCHANGED error

\* lines 62-63; Process(pid) of a pid that has been reaped raises NoSuchProcess
KillEnumerate ==
    /\ pc = "kill_tree"
    /\ signalled' = {}
    /\ IF root = "gone"
       THEN /\ ExceptExit(NoSuchProcess)
            /\ UNCHANGED <<children, alive, ti>>
       ELSE /\ children' = Ascending(Descendants)
            /\ alive' = <<>>
            /\ ti' = 1
            /\ pc' = "kill_children"
            /\ UNCHANGED error
    /\ UNCHANGED <<ctlVars, sweepVars, runVars, sleeping, sim_file, procVars,
                   handed, spawned, run_log>>

\* lines 64-65: terminate() of a process that is gone raises NoSuchProcess, which
\* the except of line 74 catches: kill_proc_tree prints and returns
KillTerminateChild ==
    /\ pc = "kill_children"
    /\ ti <= Len(children)
    /\ IF kids[children[ti]] = "gone"
       THEN /\ ExceptExit(NoSuchProcess)
            /\ UNCHANGED <<ti, signalled>>
       ELSE /\ signalled' = signalled \cup {children[ti]}
            /\ ti' = ti + 1
            /\ UNCHANGED <<pc, error>>
    /\ UNCHANGED <<ctlVars, sweepVars, runVars, sleeping, sim_file, procVars,
                   children, alive, handed, spawned, run_log>>

\* line 66: within the timeout any of the children may exit
KillWaitProcs ==
    /\ pc = "kill_children"
    /\ ti > Len(children)
    /\ LET listed == {children[i] : i \in DOMAIN children} IN
       \E exited \in SUBSET {c \in listed : KidRunning(c)} :
          /\ kids' = [k \in KidIds |-> IF k \in exited THEN "gone" ELSE kids[k]]
          /\ alive' = Ascending({c \in listed : KidRunning(c) /\ c \notin exited})
    /\ ti' = 1
    /\ pc' = "kill_alive"
    /\ UNCHANGED <<ctlVars, error, sweepVars, runVars, sleeping, sim_file, root, stale,
                   children, signalled, handed, spawned, run_log>>

\* lines 67-68: child.kill() sends SIGKILL and returns; the helper is still running
\* when the next line runs
KillAlive ==
    /\ pc = "kill_alive"
    /\ ti <= Len(alive)
    /\ IF kids[alive[ti]] = "gone"
       THEN /\ ExceptExit(NoSuchProcess)
            /\ UNCHANGED <<ti, signalled, kids>>
       ELSE /\ signalled' = signalled \cup {alive[ti]}
            /\ kids' = [kids EXCEPT ![alive[ti]] = "killed"]
            /\ ti' = ti + 1
            /\ UNCHANGED <<pc, error>>
    /\ UNCHANGED <<ctlVars, sweepVars, runVars, sleeping, sim_file, root, stale,
                   children, alive, handed, spawned, run_log>>

\* line 69: the root is a child of the harness, so it exists (running or zombie)
KillParentTerminate ==
    /\ pc = "kill_alive"
    /\ ti > Len(alive)
    /\ signalled' = signalled \cup {0}
    /\ pc' = "kill_parent"
    /\ UNCHANGED <<ctlVars, error, sweepVars, runVars, sleeping, sim_file, procVars,
                   children, alive, ti, handed, spawned, run_log>>

\* lines 70-72: parent.wait(3) returns when the root has exited, and reaps it; a
\* root that is still running after 3 s makes it raise TimeoutExpired
KillParentWait(S) ==
    /\ pc = "kill_parent"
    /\ \/ /\ root' = "gone"
          /\ pc' = "fold"
       \/ /\ S.stubborn
          /\ RootRunning
          /\ pc' = "kill_parent_kill"
          /\ UNCHANGED root
    /\ UNCHANGED <<ctlVars, error, sweepVars, runVars, sleeping, sim_file, kids, stale,
                   killVars, handed, spawned, run_log>>

\* line 73: parent.kill() sends SIGKILL and returns; nothing waits for the root,
\* which is still running or a zombie when kill_proc_tree returns
KillParentKill ==
    /\ pc = "kill_parent_kill"
    /\ root' = IF root = "alive" THEN "killed" ELSE root
    /\ pc' = "fold"
    /\ UNCHANGED <<ctlVars, error, sweepVars, runVars, sleeping, sim_file, kids, stale,
                   killVars, handed, spawned, run_log>>

\* kill_proc_tree called once more on the same pid by a caller that repeats line 177
KillAgain ==
    /\ pc = "fold"
    /\ pc' = "kill_tree"
    /\ UNCHANGED <<ctlVars, error, sweepVars, runVars, sleeping, sim_file, procVars, killVars,
                   handed, spawned, run_log>>

(***************************************************************************)
(* Folding a run and closing a wind strength (lines 179-185)               *)
(***************************************************************************)
\* lines 179-181, and the next value of line 83
Fold ==
    /\ pc = "fold"
    /\ total_burned' = Accumulate(total_burned, max_percent_burned)
    /\ total_final_burned' = Accumulate(total_final_burned, percent_burned)
    /\ run_log' = Append(run_log, [max |-> max_percent_burned, final |-> percent_burned])
    /\ run' = run + 1
    /\ pc' = "run"
    /\ UNCHANGED <<ctlVars, error, wind_strength, wind_strengths, max_burned_percents,
                   final_burned_percents, runVars, sleeping, sim_file, procVars,
                   killVars, handed, spawned>>

\* line 83 exhausted, lines 183-185, and the next value of line 78
AppendPoint(S) ==
    /\ pc = "run"
    /\ run >= S.repeats
    /\ wind_strengths' = Append(wind_strengths, wind_strength)
    /\ max_burned_percents' = Append(max_burned_percents, Average(total_burned, S.repeats))
    /\ final_burned_percents' =
           Append(final_burned_percents, Average(total_final_burned, S.repeats))
    /\ wind_strength' = wind_strength + WIND_STRENGTH_STEP
    /\ pc' = "wind"
    /\ UNCHANGED <<ctlVars, error, run, total_burned, total_final_burned, runVars, sleeping,
                   sim_file, procVars, killVars, handed, spawned, run_log>>

(***************************************************************************)
(* The environment: the simulator and its processes                        *)
(***************************************************************************)
SimAlive == RootRunning \/ \E k \in KidIds : KidRunning(k)

\* the simulator creates the stream with its header line
SimCreate ==
    /\ ~sim_file.exists
    /\ SimAlive
    /\ sim_file' = [exists |-> TRUE, lines |-> <<Header>>, partial |-> FALSE,
                    split_char |-> FALSE]
    /\ UNCHANGED <<ctlVars, pc, error, sweepVars, runVars, sleeping, procVars, killVars,
                   handed, spawned, run_log>>

CanWrite(S) ==
    /\ sim_file.exists
    /\ SimAlive
    /\ ~sim_file.partial
    /\ Len(sim_file.lines) - 1 < S.lines

\* the simulator appends one complete line
SimAppend(S) ==
    /\ CanWrite(S)
    /\ \E v \in S.vals : sim_file' = [sim_file EXCEPT !.lines = Append(@, v)]
    /\ UNCHANGED <<ctlVars, pc, error, sweepVars, runVars, sleeping, procVars, killVars,
                   handed, spawned, run_log>>

\* the simulator has flushed only the beginning of a line; the flushed bytes may
\* end inside a multi-byte symbol of the line
SimBeginLine(S) ==
    /\ CanWrite(S)
    /\ \E v \in {w \in S.vals : HasGrid(w)} :
       \E inside \in (IF HasMultiByte(v) THEN BOOLEAN ELSE {FALSE}) :
          sim_file' = [sim_file EXCEPT !.lines = Append(@, v), !.partial = TRUE,
                                       !.split_char = inside]
    /\ UNCHANGED <<ctlVars, pc, error, sweepVars, runVars, sleeping, procVars, killVars,
                   handed, spawned, run_log>>

\* the simulator flushes the rest of the line
SimFinishLine ==
    /\ sim_file.exists
    /\ sim_file.partial
    /\ SimAlive
    /\ sim_file' = [sim_file EXCEPT !.partial = FALSE, !.split_char = FALSE]
    /\ UNCHANGED <<ctlVars, pc, error, sweepVars, runVars, sleeping, procVars, killVars,
                   handed, spawned, run_log>>

\* the simulator forks a helper
SimFork(S) ==
    /\ RootRunning
    /\ \E k \in KidIds :
          /\ k <= S.kidmax
          /\ kids[k] = "none"
          /\ kids' = [kids EXCEPT ![k] = "alive"]
    /\ UNCHANGED <<ctlVars, pc, error, sweepVars, runVars, sleeping, sim_file, root, stale,
                   killVars, handed, spawned, run_log>>

\* a helper exits, on its own or by a signal, and is reaped
KidExit ==
    /\ \E k \in KidIds :
          /\ KidRunning(k)
          /\ kids' = [kids EXCEPT ![k] = "gone"]
    /\ UNCHANGED <<ctlVars, pc, error, sweepVars, runVars, sleeping, sim_file, root, stale,
                   killVars, handed, spawned, run_log>>

\* the root exits, on its own or by a signal; the harness has not waited for it:
\* a zombie
RootExit ==
    /\ RootRunning
    /\ root' = "exited"
    /\ UNCHANGED <<ctlVars, pc, error, sweepVars, runVars, sleeping, sim_file, kids, stale,
                   killVars, handed, spawned, run_log>>

\* a simulator process (of this run or left over) reads the control file
SimReadControl ==
    /\ SimAlive \/ stale > 0
    /\ control.state # "absent"
    /\ control_read' = control_read \cup {control.state}
    /\ UNCHANGED <<pc, error, sweepVars, runVars, sleeping, sim_file, procVars,
                   killVars, handed, spawned, run_log, control>>

\* a process left over from an earlier run exits
StaleExit ==
    /\ stale > 0
    /\ stale' = stale - 1
    /\ UNCHANGED <<ctlVars, pc, error, sweepVars, runVars, sleeping, sim_file, root, kids,
                   killVars, handed, spawned, run_log>>

(***************************************************************************)
(* Specifications                                                          *)
(***************************************************************************)
\* One run over every kind of stream line, partial writes included; the
\* simulator is a single process, so the loops of lines 64-68 have no iteration.
NextRun ==
    \/ StartWind(RunScope) \/ Finish(RunScope) \/ StartRun(RunScope) \/ WriteControl \/ Spawn
    \/ WaitFile
    \/ Poll
    \/ KillEnumerate \/ KillWaitProcs \/ KillParentTerminate \/ KillParentWait(RunScope)
    \/ Fold \/ AppendPoint(RunScope)
    \/ SimCreate \/ SimAppend(RunScope) \/ SimBeginLine(RunScope) \/ SimFinishLine

SpecRun == Init /\ [][NextRun]_vars

\* A sweep of two wind strengths over streams of at most two frames; the simulator
\* is a single process.
NextSweep ==
    \/ StartWind(SweepScope) \/ Finish(SweepScope) \/ StartRun(SweepScope) \/ WriteControl \/ Spawn
    \/ WaitFile
    \/ Poll
    \/ KillEnumerate \/ KillWaitProcs \/ KillParentTerminate \/ KillParentWait(SweepScope)
    \/ Fold \/ AppendPoint(SweepScope)
    \/ SimCreate \/ SimAppend(SweepScope)

SpecSweep == Init /\ [][NextSweep]_vars

\* One wind strength over streams of decoded values of every shape, complete lines
\* only; the simulator is a single process.
NextShape ==
    \/ StartWind(ShapeScope) \/ Finish(ShapeScope) \/ StartRun(ShapeScope)
    \/ WriteControl \/ Spawn \/ WaitFile
    \/ Poll
    \/ KillEnumerate \/ KillWaitProcs \/ KillParentTerminate \/ KillParentWait(ShapeScope)
    \/ Fold \/ AppendPoint(ShapeScope)
    \/ SimCreate \/ SimAppend(ShapeScope)

SpecShape == Init /\ [][NextShape]_vars

\* One wind strength over streams of valid frames that the simulator may flush in
\* two parts.  The harness is a single thread that is always scheduled: the loop of
\* lines 123-175 reads the file again after every sleep (weak fairness of Poll).
NextTail ==
    \/ StartWind(TailScope) \/ Finish(TailScope) \/ StartRun(TailScope)
    \/ WriteControl \/ Spawn \/ WaitFile
    \/ Poll
    \/ KillEnumerate \/ KillWaitProcs \/ KillParentTerminate \/ KillParentWait(TailScope)
    \/ Fold \/ AppendPoint(TailScope)
    \/ SimCreate \/ SimAppend(TailScope) \/ SimBeginLine(TailScope) \/ SimFinishLine

SpecTail == Init /\ [][NextTail]_vars /\ WF_vars(Poll)

\* A sweep of two wind strengths, three runs each, over one-frame streams whose
\* percentages round; the simulator is a single process.
NextMean ==
    \/ StartWind(MeanScope) \/ Finish(MeanScope) \/ StartRun(MeanScope)
    \/ WriteControl \/ Spawn \/ WaitFile
    \/ Poll
    \/ KillEnumerate \/ KillWaitProcs \/ KillParentTerminate \/ KillParentWait(MeanScope)
    \/ Fold \/ AppendPoint(MeanScope)
    \/ SimCreate \/ SimAppend(MeanScope)

SpecMean == Init /\ [][NextMean]_vars

\* Two runs of a simulator that forks helpers; processes exit on their own.
NextProc ==
    \/ StartWind(ProcScope) \/ Finish(ProcScope) \/ StartRun(ProcScope) \/ WriteControl \/ Spawn
    \/ WaitFile
    \/ Poll
    \/ KillEnumerate \/ KillTerminateChild \/ KillWaitProcs \/ KillAlive
    \/ KillParentTerminate \/ KillParentWait(ProcScope) \/ KillParentKill
    \/ Fold \/ AppendPoint(ProcScope)
    \/ SimCreate \/ SimAppend(ProcScope)
    \/ SimFork(ProcScope) \/ KidExit \/ RootExit \/ StaleExit \/ SimReadControl

SpecProc == Init /\ [][NextProc]_vars

\* The runs of SpecProc with a caller that may repeat kill_proc_tree(proc.pid) any
\* number of times before it folds the run.
NextKill ==
    \/ StartWind(ProcScope) \/ Finish(ProcScope) \/ StartRun(ProcScope) \/ WriteControl \/ Spawn
    \/ WaitFile
    \/ Poll
    \/ KillEnumerate \/ KillTerminateChild \/ KillWaitProcs \/ KillAlive
    \/ KillParentTerminate \/ KillParentWait(ProcScope) \/ KillParentKill \/ KillAgain
    \/ Fold \/ AppendPoint(ProcScope)
    \/ SimCreate \/ SimAppend(ProcScope)
    \/ SimFork(ProcScope) \/ KidExit \/ RootExit \/ StaleExit \/ SimReadControl

SpecKill == Init /\ [][NextKill]_vars

(***************************************************************************)
(* Properties of one run (SpecRun)                                         *)
(***************************************************************************)
HandedLines  == [i \in DOMAIN handed |-> handed[i].line]
HandedGrids  == SelectSeq(HandedLines, HasGrid)
IsZeroBurning(line) == HasGrid(line) /\ line.iterable /\ BurningCount(line.cells) = 0
Last(q) == q[Len(q)]

\* C1: while the harness has not failed, done holds exactly when the last line the
\* loop ran on is a grid frame with no burning cell, no earlier line of the run was
\* such a frame, and so no line after that frame is ever classified.
C1_DoneOnFirstFireFreeFrame ==
    /\ done => /\ handed # <<>>
               /\ IsZeroBurning(Last(handed).line)
               /\ \A i \in 1..(Len(handed) - 1) : ~IsZeroBurning(handed[i].line)
    /\ (error = NoError /\ ~done) => \A i \in DOMAIN handed : ~IsZeroBurning(handed[i].line)

\* C1 witness: the run is done and the batch read by the last poll held a line after
\* the terminal frame, which the loop never ran on.
C1_Witness ==
    /\ done
    /\ pc = "kill_tree"
    /\ last_processed > Last(handed).idx + 1
    /\ Len(handed) >= 2

\* C2: every percentage the harness holds lies in [0, 100].
C2_PercentInRange ==
    /\ FLeq(Zero, percent_burned) /\ FLeq(percent_burned, Whole(100))
    /\ FLeq(Zero, max_percent_burned) /\ FLeq(max_percent_burned, Whole(100))
    /\ \A i \in DOMAIN final_burned_percents :
          /\ FLeq(Zero, final_burned_percents[i])
          /\ FLeq(final_burned_percents[i], Whole(100))
          /\ FLeq(Zero, max_burned_percents[i])
          /\ FLeq(max_burned_percents[i], Whole(100))

\* C3: initial_burnable_count is None until a grid frame has been classified and
\* from then on is the number of Burning, Burnable and Burned cells of the first
\* grid frame of the run, whatever the later frames hold.
C3_DenominatorFromFirstFrame ==
    initial_burnable_count =
        IF HandedGrids = <<>> \/ ~HandedGrids[1].iterable
        THEN None
        ELSE DomainCount(HandedGrids[1].cells)

\* C3 witness: a later frame of the run has another number of fire-domain cells
\* than the first one.
C3_Witness ==
    /\ Len(HandedGrids) >= 2
    /\ error = NoError
    /\ Last(HandedGrids).iterable
    /\ DomainCount(Last(HandedGrids).cells) # initial_burnable_count
    /\ initial_burnable_count = DomainCount(HandedGrids[1].cells)

\* C4: the line indices handed to the classifier are strictly increasing and never
\* 0 (the header), and a poll that finds no line beyond last_processed changes no
\* variable of the run and leaves the harness polling.
C4_EachLineOnce ==
    /\ [](/\ \A i \in DOMAIN handed : handed[i].idx >= 1
          /\ \A i, j \in DOMAIN handed : i < j => handed[i].idx < handed[j].idx)
    /\ [][(/\ pc = "poll"
           /\ NewLines(ReadLines(sim_file), last_processed) = <<>>
           /\ sim_file' = sim_file)
          => (pc' = "poll" /\ UNCHANGED <<runVars, handed, error>>)]_vars

\* C4 witness: after two lines were classified a poll found nothing new.
C4_Witness ==
    /\ pc = "poll"
    /\ sleeping
    /\ Len(handed) >= 2
    /\ last_processed = Len(sim_file.lines)

\* C5: a line that fails to decode raises nothing and has no effect: the run
\* variables are what classifying the decoded lines alone gives, frame_counter is
\* the number of grid frames classified, and an exception never comes from a line
\* that failed to decode.
C5_MalformedSkipped ==
    LET decoded == SelectSeq(HandedLines, Decodes)
        fresh   == [frame_counter |-> 0, max_percent_burned |-> Zero,
                    peak_fire_front |-> 0, done |-> FALSE,
                    initial_burnable_count |-> None, percent_burned |-> Zero,
                    error |-> NoError, seen |-> 0]
        st      == ForLines(fresh, decoded, 1)
    IN  /\ frame_counter = st.frame_counter
        /\ max_percent_burned = st.max_percent_burned
        /\ peak_fire_front = st.peak_fire_front
        /\ done = st.done
        /\ initial_burnable_count = st.initial_burnable_count
        /\ percent_burned = st.percent_burned
        /\ error = NoError => frame_counter = Len(HandedGrids)
        /\ error # NoError => (handed # <<>> /\ Decodes(Last(handed).line))

(***************************************************************************)
(* Properties of the sweep (SpecSweep)                                     *)
(***************************************************************************)
ZeroFirstFrame ==
    /\ HandedGrids # <<>>
    /\ HandedGrids[1].iterable
    /\ DomainCount(HandedGrids[1].cells) = 0

\* C6: when the first grid frame of a run has no Burning, Burnable or Burned cell
\* the harness fails with the no-burnable-cells error before any metric of the run
\* is updated; no point is appended for the current wind strength, the run is not
\* folded, no further run is spawned, and nothing of the sweep changes afterwards.
C6_ZeroDenominatorAborts ==
    /\ [](ZeroFirstFrame =>
            /\ pc = "aborted"
            /\ error = NoBurnableError
            /\ frame_counter = 0
            /\ max_percent_burned = Zero
            /\ peak_fire_front = 0
            /\ percent_burned = Zero
            /\ ~done
            /\ Len(HandedGrids) = 1
            /\ Len(wind_strengths) * WIND_STRENGTH_STEP = wind_strength
            /\ Len(max_burned_percents) = Len(wind_strengths)
            /\ Len(final_burned_percents) = Len(wind_strengths)
            /\ Len(run_log) = run
            /\ spawned = Len(wind_strengths) * SweepRepeats + run + 1)
    /\ [][pc = "aborted" => (pc' = "aborted" /\ UNCHANGED <<sweepVars, runVars, spawned, run_log>>)]_vars

\* C6 witness: the second run of the second wind strength fails; the point of the
\* first wind strength is the only one.
C6_Witness ==
    /\ pc = "aborted"
    /\ ZeroFirstFrame
    /\ wind_strength = 1
    /\ run = 1
    /\ wind_strengths = <<0>>
    /\ spawned = 4

\* C7: the no-burnable-cells error identifies its run: no other run of the sweep
\* would raise the same error value.
C7_ErrorNamesRun ==
    (pc = "aborted" /\ ZeroFirstFrame) =>
        \A w \in 0..SweepScope.wind_max, r \in 0..(SweepRepeats - 1) :
            NoBurnableMessage(w, r) = error => (w = wind_strength /\ r = run)

\* the runs of `log' added one after the other, in the order `order', as lines
\* 179-180 add them
RECURSIVE SumInOrder(_, _, _, _)
SumInOrder(log, field, order, i) ==
    IF i = 0 THEN Zero
    ELSE FAdd(SumInOrder(log, field, order, i - 1), log[order[i]][field])

MeanInOrder(log, field, order) ==
    FDiv(SumInOrder(log, field, order, Len(log)), Len(log))

RunOrder(log) == [i \in 1..Len(log) |-> i]

SumOfRuns(log, field) == SumInOrder(log, field, RunOrder(log), Len(log))

\* C8 as stated: when the point of a wind strength has been appended, it comes
\* from exactly REPEATS runs, all of that wind strength, and its averages are the
\* arithmetic means of those runs' max_percent_burned and percent_burned, in
\* whatever order the runs are taken.
C8_AveragesAreMeans ==
    (pc = "wind" /\ wind_strengths # <<>>) =>
        /\ Len(run_log) = MeanRepeats
        /\ Last(wind_strengths) = wind_strength - WIND_STRENGTH_STEP
        /\ \A order \in Permutations(1..Len(run_log)) :
              /\ Last(final_burned_percents) = MeanInOrder(run_log, "final", order)
              /\ Last(max_burned_percents) = MeanInOrder(run_log, "max", order)

\* C8 amended: when the point of a wind strength has been appended, it comes from
\* exactly REPEATS runs, all of that wind strength, and each average is the float
\* sum of those runs' values, added to 0 in the order the runs were made, divided
\* by REPEATS.
C8_AveragesInRunOrder ==
    (pc = "wind" /\ wind_strengths # <<>>) =>
        /\ Len(run_log) = MeanRepeats
        /\ Last(wind_strengths) = wind_strength - WIND_STRENGTH_STEP
        /\ Last(final_burned_percents) = MeanInOrder(run_log, "final", RunOrder(run_log))
        /\ Last(max_burned_percents) = MeanInOrder(run_log, "max", RunOrder(run_log))

\* C8 witness: values {0, 1}, three repeats; the runs of value 0 burn 1, 3 and 5
\* cells of 6 and average 50.0, the runs of value 1 burn 5, 3 and 1 cells of 6 and
\* average 49.99999999999999.
C8_Witness ==
    /\ pc = "wind"
    /\ wind_strengths = <<0, 1>>
    /\ final_burned_percents[1] = Whole(50)
    /\ run_log = << [max |-> Frac(500, 6), final |-> Frac(500, 6)],
                    [max |-> Whole(50), final |-> Whole(50)],
                    [max |-> Frac(100, 6), final |-> Frac(100, 6)] >>
    /\ final_burned_percents[2] = FDiv(FAdd(FAdd(Frac(500, 6), Whole(50)), Frac(100, 6)), 3)
    /\ final_burned_percents[2] # Whole(50)

(***************************************************************************)
(* Properties of the teardown (SpecProc)                                   *)
(***************************************************************************)
Enumerated == {children[i] : i \in DOMAIN children}

\* C9: when kill_proc_tree has returned, the root is no longer running, it was
\* sent a termination, and so was every enumerated descendant that had not
\* already exited.
C9_TeardownReachesAll ==
    pc = "fold" =>
        /\ root # "alive"
        /\ 0 \in signalled
        /\ \A c \in Enumerated : c \in signalled \/ kids[c] = "gone"

\* C10: no process of an earlier run is alive once the next run has been spawned.
C10_RunsNeverOverlap == stale = 0

\* C11: kill_proc_tree never ends the harness with an exception, whether the root
\* or a helper has already exited and however often it is called on the same pid,
\* and every run that was spawned and has left the teardown is folded: its
\* max_percent_burned and percent_burned are in the running sums.
C11_TeardownNeverRaises ==
    /\ pc # "aborted"
    /\ error = NoError
    /\ pc = "run" =>
          /\ Len(run_log) = spawned
          /\ total_burned = SumOfRuns(run_log, "max")
          /\ total_final_burned = SumOfRuns(run_log, "final")
          /\ spawned > 0 =>
                Last(run_log) = [max |-> max_percent_burned, final |-> percent_burned]

\* C11 witness: kill_proc_tree has returned from a call on a root that was already
\* reaped (a repeated call: Process(pid) raised before anything was signalled).
C11_Witness ==
    /\ pc = "fold"
    /\ root = "gone"
    /\ signalled = {}

\* C12: no simulator process ever reads the control file while it is truncated or
\* incomplete, and from the spawn of a run on the file holds the complete record of
\* that run's wind strength.
C12_ControlNeverTorn ==
    /\ control_read \subseteq {"complete"}
    /\ pc \in {"wait_file", "poll"} => control = Written(wind_strength)

\* C13: the final percentage of a finished run, and the value folded into
\* total_final_burned, is 100 * burned / initial_burnable_count of the frame with
\* no burning cell that ended the run; a run whose first frame has no burning cell
\* ends on it with frame_counter = 1, with 100 % when all its fire-domain cells
\* are burned.
C13_FinalIsTerminalFrame ==
    /\ done =>
          LET terminal == Last(handed).line
              first    == HandedGrids[1]
          IN  /\ IsZeroBurning(terminal)
              /\ percent_burned = Frac(100 * BurnedCount(terminal.cells),
                                       DomainCount(first.cells))
              /\ IsZeroBurning(first) => (frame_counter = 1 /\ terminal = first)
              /\ (IsZeroBurning(first) /\ BurnedCount(first.cells) = DomainCount(first.cells))
                    => percent_burned = Whole(100)
    /\ (pc = "run" /\ run_log # <<>>) =>
          /\ done
          /\ Last(run_log).final = percent_burned
          /\ total_final_burned = SumOfRuns(run_log, "final")

\* C13 witness: a folded run whose stream was the single frame with both cells
\* burned: final 100, one frame.
C13_Witness ==
    /\ pc = "run"
    /\ run_log # <<>>
    /\ Len(handed) = 1
    /\ handed[1].line = Bare(<< <<"A", "A">> >>)
    /\ frame_counter = 1
    /\ Last(run_log).final = Whole(100)
    /\ total_final_burned = Whole(100)

\* C14: the three series always have the same length and wind_strengths is always
\* 0, STEP, 2 STEP, ... in ascending order; a point is appended only after REPEATS
\* runs of its wind strength were spawned and folded; when the sweep has finished
\* there is exactly one point for every value of the range up to the maximum.
C14_OnePointPerWind ==
    /\ Len(max_burned_percents) = Len(wind_strengths)
    /\ Len(final_burned_percents) = Len(wind_strengths)
    /\ \A i \in DOMAIN wind_strengths : wind_strengths[i] = (i - 1) * WIND_STRENGTH_STEP
    /\ \A i, j \in DOMAIN wind_strengths : i < j => wind_strengths[i] < wind_strengths[j]
    /\ pc \in {"wind", "finished"} =>
          /\ spawned = Len(wind_strengths) * SweepRepeats
          /\ wind_strengths # <<>> => Len(run_log) = SweepRepeats
    /\ pc = "finished" =>
          /\ Len(wind_strengths) * WIND_STRENGTH_STEP > SweepScope.wind_max
          /\ Last(wind_strengths) <= SweepScope.wind_max

\* C14 witness: the sweep over the wind strengths 0 and 1 has finished with two
\* points from four runs.
C14_Witness ==
    /\ pc = "finished"
    /\ wind_strengths = <<0, 1>>
    /\ Len(final_burned_percents) = 2
    /\ spawned = 2 * SweepRepeats

\* C15: while a run is polled, frame_counter, max_percent_burned and
\* peak_fire_front never decrease; max_percent_burned is at least the burned
\* percentage of every frame processed so far, the current percent_burned
\* included, and peak_fire_front at least the burning cells of every such frame.
C15_MetricsMonotone ==
    /\ [](error = NoError =>
            /\ FLeq(percent_burned, max_percent_burned)
            /\ \A i \in DOMAIN HandedGrids :
                  /\ FLeq(Frac(100 * BurnedCount(HandedGrids[i].cells), initial_burnable_count),
                          max_percent_burned)
                  /\ BurningCount(HandedGrids[i].cells) <= peak_fire_front)
    /\ [][pc = "poll" =>
            /\ frame_counter' >= frame_counter
            /\ FLeq(max_percent_burned, max_percent_burned')
            /\ peak_fire_front' >= peak_fire_front]_vars

\* C15 witness: a finished run of two frames whose final percentage is below its
\* maximum and whose last frame has fewer burning cells than the peak.
C15_Witness ==
    /\ done
    /\ frame_counter = 2
    /\ percent_burned # max_percent_burned
    /\ FLeq(percent_burned, max_percent_burned)
    /\ BurningCount(Last(HandedGrids).cells) < peak_fire_front

(***************************************************************************)
(* Properties of the grid extraction (SpecShape)                           *)
(***************************************************************************)
IsUsableGrid(line) == HasGrid(line) /\ line.iterable

FreshRun ==
    [frame_counter |-> 0, max_percent_burned |-> Zero, peak_fire_front |-> 0,
     done |-> FALSE, initial_burnable_count |-> None, percent_burned |-> Zero,
     error |-> NoError, seen |-> 0]

\* C16: a decoded line whose value is not a grid (a scalar, a record without
\* "cells", a record whose "cells" is not a grid, a list whose elements are not
\* rows) raises nothing and changes nothing: no TypeError ends the harness and the
\* run variables are what classifying the usable grids alone gives.
C16_NonGridSkipped ==
    LET st == ForLines(FreshRun, SelectSeq(HandedLines, IsUsableGrid), 1)
    IN  /\ error # TypeErrorRaised
        /\ frame_counter = st.frame_counter
        /\ max_percent_burned = st.max_percent_burned
        /\ peak_fire_front = st.peak_fire_front
        /\ done = st.done
        /\ initial_burnable_count = st.initial_burnable_count
        /\ percent_burned = st.percent_burned

(***************************************************************************)
(* Properties of the tailer under partial writes (SpecTail)                *)
(***************************************************************************)
\* the complete lines of the stream, header included
CompleteLines ==
    IF sim_file.partial THEN SubSeq(sim_file.lines, 1, Len(sim_file.lines) - 1)
    ELSE sim_file.lines

TerminalFrameOnDisk ==
    \E i \in 2..Len(CompleteLines) : IsZeroBurning(CompleteLines[i])

\* C17: once the stream holds a complete valid frame with no burning cell while
\* the harness polls, the harness eventually marks the run done (or has ended
\* with an exception): it does not poll forever.
C17_TerminalFrameObserved == (pc = "poll" /\ TerminalFrameOnDisk) ~> (done \/ error # NoError)

TeardownPcs ==
    {"kill_tree", "kill_children", "kill_alive", "kill_parent", "kill_parent_kill", "fold"}

\* C18: when a run is finalized, frame_counter is the number of complete valid
\* grid frames of the stream from the first data line up to and including the
\* frame that ended the run: no frame was lost to a read of a half-written line.
C18_NoFrameLost ==
    pc \in TeardownPcs =>
        frame_counter =
            Len(SelectSeq(SubSeq(sim_file.lines, 2, Last(handed).idx + 1), IsUsableGrid))

(***************************************************************************)
(* Properties of the ways a run ends (SpecSweep)                           *)
(***************************************************************************)
\* C19: when the harness has ended, by finishing the sweep or by the
\* no-burnable-cells error, no simulator process it spawned is running.
C19_NoSimulatorLeftRunning ==
    pc \in {"finished", "aborted"} => (~SimAlive /\ stale = 0)

\* C20: in every run the variables of the run are what the lines handed to the
\* loop in this run give from the initial values, and the offset is 1 plus the
\* lines consumed in this run, whatever the earlier runs read and computed; the
\* step that begins a run leaves no output file behind, and it comes before the
\* spawn.
C20_RunsIndependent ==
    /\ [](pc \in ({"poll", "aborted"} \cup TeardownPcs) =>
            LET st == ForLines(FreshRun, HandedLines, 1)
            IN  /\ frame_counter = st.frame_counter
                /\ max_percent_burned = st.max_percent_burned
                /\ peak_fire_front = st.peak_fire_front
                /\ done = st.done
                /\ initial_burnable_count = st.initial_burnable_count
                /\ percent_burned = st.percent_burned)
    /\ [](pc = "poll" => last_processed = FIRST_DATA_LINE + Len(handed))
    /\ [][(pc = "run" /\ pc' = "write_control") => ~sim_file'.exists]_vars
    /\ [][spawned' # spawned => pc = "spawn"]_vars

\* C20 witness: the second run of a wind strength has read one burning frame (80 %
\* burned) after a first run that ended with 40 %.
C20_Witness ==
    /\ pc = "poll"
    /\ run = 1
    /\ Len(run_log) = 1
    /\ run_log[1].final = Whole(40)
    /\ frame_counter = 1
    /\ last_processed = 2
    /\ percent_burned = Whole(80)
    /\ ~done
====
